---- MODULE Spec2Model ----
(***************************************************************************)
(* A model of the MHTML component analyser (src/app.py, the strict,       *)
(* GPT-enabled variant, and src/app1.py, the loose, JSON-only variant).   *)
(*                                                                         *)
(* Python values are modelled as follows.                                  *)
(*   str        a TLA+ string                wrapped as <<"str", s>>       *)
(*   None       the null marker              <<"None">>                    *)
(*   dict       an insertion-ordered sequence of <<key, value>> pairs      *)
(*   list       a sequence                                                 *)
(*   object     component records are dict objects that the classifier's  *)
(*              result and the cleaned result share by reference: they     *)
(*              live in a heap (object id -> dict) and the lists hold ids  *)
(***************************************************************************)
EXTENDS Integers, Sequences, FiniteSets, TLC

VARIABLES
    variant,      \* "app" (src/app.py) or "app1" (src/app1.py)
    bs4,          \* the generation of BeautifulSoup's search rules in the build
    pc,           \* position of the run
    tree,         \* the element tree of the HTML document being classified
    origin,       \* object id -> the element the record was made from
    heap,         \* object id -> component record (a dict)
    heap0,        \* the heap as it was when clean_components was first called
    comps,        \* the classifier's result: dict ctype -> list of object ids
    cleaned,      \* the result of clean_components(comps)
    cleaned2,     \* the result of clean_components(cleaned)
    archive,      \* an uploaded file: the parts of its MIME message, in walk order
    html,         \* what extract_html_from_mhtml returned for it
    uploaded,     \* the upload list: a sequence of [name, parts]
    idx,          \* main's position in uploaded[:5]
    reads,        \* how many times each uploaded file was read
    warnings,     \* the file names st.warning was called with, in order
    page_summary, \* dict file name -> cleaned classification result
    components_json, \* what generate_components_json returned
    shown,        \* what the page displays
    clicked,      \* whether the analysis button was pressed in this run
    requests,     \* the prompts sent to the text-generation service, in order
    analysis      \* what analyze_components_with_gpt returned

parseVars == <<tree, origin>>

cleanVars == <<heap, heap0, comps, cleaned, cleaned2>>

extractVars == <<archive, html>>

mainVars == <<uploaded, idx, reads, warnings, page_summary, components_json, shown,
              clicked, requests, analysis>>

vars == <<variant, bs4, pc, parseVars, cleanVars, extractVars, mainVars>>

Variants == {"app", "app1"}

-----------------------------------------------------------------------------
(* Python values *)

None == <<"None">>

Str(s) == <<"str", s>>

IsNone(v) == v = None

\* Python truthiness of a str-or-None value
Truthy(v) == v # None /\ v # Str("")

\* a normalisation that leaves the null marker in place
KeepValue(v) == v

\* x or ""
OrEmpty(v) == IF Truthy(v) THEN v ELSE Str("")

(* Insertion-ordered dicts: sequences of <<key, value>> with unique keys *)

Keys(d) == [i \in 1..Len(d) |-> d[i][1]]

Has(d, k) == \E i \in 1..Len(d) : d[i][1] = k

Get(d, k) == d[CHOOSE i \in 1..Len(d) : d[i][1] = k][2]

\* d[k] = v : an existing key keeps its position, a new key goes last
Put(d, k, v) ==
    IF Has(d, k)
    THEN [i \in 1..Len(d) |-> IF d[i][1] = k THEN <<k, v>> ELSE d[i]]
    ELSE Append(d, <<k, v>>)

\* defaultdict(list)[k] : the list under k, created empty when missing
GetList(d, k) == IF Has(d, k) THEN Get(d, k) ELSE <<>>

Touch(d, k) == IF Has(d, k) THEN d ELSE Append(d, <<k, <<>> >>)

-----------------------------------------------------------------------------
(* Python str operations *)

Min(a, b) == IF a <= b THEN a ELSE b

\* a slice that cuts nothing
NoSlice(s, n) == s

\* s[:n]
Slice(s, n) == SubSeq(s, 1, Min(n, Len(s)))

\* kw in s
Contains(s, kw) ==
    \E i \in 1..(Len(s) - Len(kw) + 1) : SubSeq(s, i, i + Len(kw) - 1) = kw

UpperLetters == "ABCDEFGHIJKLMNOPQRSTUVWXYZ"

LowerLetters == "abcdefghijklmnopqrstuvwxyz"

\* letter -> its lower-case letter, and letter -> its upper-case letter
LowerOf ==
    [c \in {SubSeq(UpperLetters, i, i) : i \in 1..Len(UpperLetters)} |->
        LET i == CHOOSE i \in 1..Len(UpperLetters) : SubSeq(UpperLetters, i, i) = c
        IN  SubSeq(LowerLetters, i, i)]

UpperOf ==
    [c \in {SubSeq(LowerLetters, i, i) : i \in 1..Len(LowerLetters)} |->
        LET i == CHOOSE i \in 1..Len(LowerLetters) : SubSeq(LowerLetters, i, i) = c
        IN  SubSeq(UpperLetters, i, i)]

\* the string with every character replaced by its image under table
\* (computed by halves, which keeps the evaluation shallow)
RECURSIVE MapStr(_, _)
MapStr(s, table) ==
    IF Len(s) = 0 THEN ""
    ELSE IF Len(s) = 1 THEN (IF s \in DOMAIN table THEN table[s] ELSE s)
    ELSE LET m == Len(s) \div 2
         IN  MapStr(SubSeq(s, 1, m), table) \o MapStr(SubSeq(s, m + 1, Len(s)), table)

\* s.lower() and s.upper()
Lower(s) == MapStr(s, LowerOf)

Upper(s) == MapStr(s, UpperOf)

IsSpace(c) == c \in {" ", "\n", "\t"}

RECURSIVE LStrip(_)
LStrip(s) ==
    IF Len(s) > 0 /\ IsSpace(SubSeq(s, 1, 1)) THEN LStrip(SubSeq(s, 2, Len(s))) ELSE s

RECURSIVE RStrip(_)
RStrip(s) ==
    IF Len(s) > 0 /\ IsSpace(SubSeq(s, Len(s), Len(s)))
    THEN RStrip(SubSeq(s, 1, Len(s) - 1)) ELSE s

\* s.strip()
Strip(s) == RStrip(LStrip(s))

\* the string of n copies of the character c
RECURSIVE Repeat(_, _)
Repeat(c, n) ==
    IF n = 0 THEN "" ELSE IF n = 1 THEN c
    ELSE Repeat(c, n \div 2) \o Repeat(c, n - (n \div 2))

\* sep.join(parts)
RECURSIVE Join(_, _, _)
Join(sep, parts, i) ==
    IF i > Len(parts) THEN ""
    ELSE (IF i > 1 THEN sep ELSE "") \o parts[i] \o Join(sep, parts, i + 1)

-----------------------------------------------------------------------------
(* json.dumps(itm, sort_keys=True) for a dict of str keys and str/None values *)

\* the record keys of the program, in the order sort_keys puts them
SortedKeyOrder == <<"action", "alt", "href", "html", "method", "src", "tag", "text">>

\* the escapes json.dumps applies to the characters the model's strings hold
JsonEscapes == [c \in {"\"", "\\"} |-> "\\" \o c]

JsonEscape(s) == MapStr(s, JsonEscapes)

JsonValue(v) == IF IsNone(v) THEN "null" ELSE "\"" \o JsonEscape(v[2]) \o "\""

RECURSIVE JsonItems(_, _, _)
JsonItems(d, i, first) ==
    IF i > Len(SortedKeyOrder) THEN ""
    ELSE LET k == SortedKeyOrder[i]
         IN  IF Has(d, k)
             THEN (IF first THEN "" ELSE ", ")
                  \o "\"" \o k \o "\": " \o JsonValue(Get(d, k))
                  \o JsonItems(d, i + 1, FALSE)
             ELSE JsonItems(d, i + 1, first)

json_dumps(d) == "{" \o JsonItems(d, 1, TRUE) \o "}"

-----------------------------------------------------------------------------
(* clean_components, src/app.py: de-duplicate per category, then normalise  *)
(* the image and link records of the result in place                       *)

\* a de-duplication that remembers only the signature of the record before
RECURSIVE DedupAdjacent(_, _, _, _)
DedupAdjacent(h, items, i, seen) ==
    IF i > Len(items) THEN <<>>
    ELSE LET sig == json_dumps(h[items[i]])
         IN  IF sig \notin seen
             THEN <<items[i]>> \o DedupAdjacent(h, items, i + 1, {sig})
             ELSE DedupAdjacent(h, items, i + 1, {sig})

\* lines 108-113: the records of one category whose signature was not seen
RECURSIVE DedupItems(_, _, _, _)
DedupItems(h, items, i, seen) ==
    IF i > Len(items) THEN <<>>
    ELSE LET sig == json_dumps(h[items[i]])
         IN  IF sig \notin seen
             THEN <<items[i]>> \o DedupItems(h, items, i + 1, seen \cup {sig})
             ELSE DedupItems(h, items, i + 1, seen)

\* lines 106-113: clean[ctype] exists only once a record was appended to it
RECURSIVE DedupAll(_, _, _)
DedupAll(h, c, j) ==
    IF j > Len(c) THEN <<>>
    ELSE LET kept == DedupItems(h, c[j][2], 1, {})
             rest == DedupAll(h, c, j + 1)
         IN  IF kept = <<>> THEN rest ELSE << <<c[j][1], kept>> >> \o rest

\* rec[k] = rec[k] or "" on every object of ids
RECURSIVE NormaliseField(_, _, _, _)
NormaliseField(h, ids, i, k) ==
    IF i > Len(ids) THEN h
    ELSE LET o == ids[i]
         IN  NormaliseField([h EXCEPT ![o] = Put(h[o], k, OrEmpty(Get(h[o], k)))],
                            ids, i + 1, k)

clean_components_app(h, c) ==
    LET clean0 == DedupAll(h, c, 1)
        \* lines 116-118: clean["image_gallery"] creates the key when missing
        clean1 == Touch(clean0, "image_gallery")
        imgs   == Get(clean1, "image_gallery")
        h1     == NormaliseField(NormaliseField(h, imgs, 1, "src"), imgs, 1, "alt")
        \* lines 120-121: and so do clean["link_block"] and clean["nav_bar"]
        clean2 == Touch(Touch(clean1, "link_block"), "nav_bar")
        links  == Get(clean2, "link_block") \o Get(clean2, "nav_bar")
        h2     == NormaliseField(h1, links, 1, "text")
    IN  [heap |-> h2, clean |-> clean2]

-----------------------------------------------------------------------------
(* clean_components, src/app1.py: normalise each kept record as it is kept  *)

\* lines 115-120
NormaliseRecord(d) ==
    LET d1 == IF Has(d, "src") THEN Put(d, "src", OrEmpty(Get(d, "src"))) ELSE d
        d2 == IF Has(d1, "alt") THEN Put(d1, "alt", OrEmpty(Get(d1, "alt"))) ELSE d1
    IN  IF Has(d2, "text") THEN Put(d2, "text", OrEmpty(Get(d2, "text"))) ELSE d2

\* lines 110-121 for one category: [heap, kept]
RECURSIVE CleanItems(_, _, _, _, _)
CleanItems(h, items, i, seen, kept) ==
    IF i > Len(items) THEN [heap |-> h, kept |-> kept]
    ELSE LET o   == items[i]
             sig == json_dumps(h[o])
         IN  IF sig \notin seen
             THEN CleanItems([h EXCEPT ![o] = NormaliseRecord(h[o])], items, i + 1,
                             seen \cup {sig}, Append(kept, o))
             ELSE CleanItems(h, items, i + 1, seen, kept)

\* lines 109-121: seen[ctype] is a set per category
RECURSIVE CleanAll(_, _, _, _)
CleanAll(h, c, j, acc) ==
    IF j > Len(c) THEN [heap |-> h, clean |-> acc]
    ELSE LET r == CleanItems(h, c[j][2], 1, {}, <<>>)
         IN  CleanAll(r.heap, c, j + 1,
                      IF r.kept = <<>> THEN acc ELSE Append(acc, <<c[j][1], r.kept>>))

clean_components_app1(h, c) == CleanAll(h, c, 1, <<>>)

clean_components(v, h, c) ==
    IF v = "app" THEN clean_components_app(h, c) ELSE clean_components_app1(h, c)

-----------------------------------------------------------------------------
(* The element tree BeautifulSoup(html, "lxml") builds.  A document is the *)
(* sequence of its elements in document order; element i is a record       *)
(*   depth  its nesting depth (html is 1, body 2)                          *)
(*   name   its tag name                                                   *)
(*   class  its class tokens (empty when it has no class attribute)        *)
(*   id     its id attribute, None when absent                             *)
(*   attrs  its other attributes, a dict name -> string                    *)
(*   text   the text node that opens its content ("" for none)             *)

Element(name, class, id, attrs, text) ==
    [depth |-> 0, name |-> name, class |-> class, id |-> id, attrs |-> attrs, text |-> text]

\* lxml wraps every document in html and body
Wrapper ==
    << [Element("html", <<>>, None, <<>>, "") EXCEPT !.depth = 1],
       [Element("body", <<>>, None, <<>>, "") EXCEPT !.depth = 2] >>

\* the elements after i that are inside it, in document order
RECURSIVE DescendantsFrom(_, _, _)
DescendantsFrom(doc, i, j) ==
    IF j > Len(doc) \/ doc[j].depth <= doc[i].depth THEN <<>>
    ELSE <<j>> \o DescendantsFrom(doc, i, j + 1)

Descendants(doc, i) == DescendantsFrom(doc, i, i + 1)

IsAncestor(doc, a, i) ==
    /\ a < i
    /\ doc[a].depth < doc[i].depth
    /\ \A j \in (a + 1)..i : doc[j].depth > doc[a].depth

\* tag.parents, nearest first
RECURSIVE ParentsFrom(_, _, _)
ParentsFrom(doc, i, a) ==
    IF a = 0 THEN <<>>
    ELSE (IF IsAncestor(doc, a, i) THEN <<a>> ELSE <<>>) \o ParentsFrom(doc, i, a - 1)

Parents(doc, i) == ParentsFrom(doc, i, i - 1)

\* tag.get(k)
Attr(el, k) == IF Has(el.attrs, k) THEN Str(Get(el.attrs, k)) ELSE None

All(doc) == [i \in 1..Len(doc) |-> i]

\* tag.get_text(sep, strip=True): the stripped, non-empty strings of the
\* element and its descendants, joined by sep
RECURSIVE StrippedStrings(_, _, _)
StrippedStrings(doc, ids, n) ==
    IF n > Len(ids) THEN <<>>
    ELSE LET t == Strip(doc[ids[n]].text)
         IN  (IF t = "" THEN <<>> ELSE <<t>>) \o StrippedStrings(doc, ids, n + 1)

get_text(doc, i, sep) ==
    Join(sep, StrippedStrings(doc, <<i>> \o Descendants(doc, i), 1), 1)

VoidNames == {"img", "input"}

RECURSIVE AttrMarkup(_, _)
AttrMarkup(d, n) ==
    IF n > Len(d) THEN ""
    ELSE " " \o d[n][1] \o "=\"" \o d[n][2] \o "\"" \o AttrMarkup(d, n + 1)

\* the direct children of i among its descendants
Children(doc, i) ==
    SelectSeq(Descendants(doc, i), LAMBDA j : doc[j].depth = doc[i].depth + 1)

\* str(tag)
RECURSIVE Markup(_, _)
Markup(doc, i) ==
    LET el    == doc[i]
        kids  == Children(doc, i)
        inner == [n \in 1..Len(kids) |-> Markup(doc, kids[n])]
        open  == "<" \o el.name
                 \o (IF el.class = <<>> THEN ""
                     ELSE " class=\"" \o Join(" ", el.class, 1) \o "\"")
                 \o (IF IsNone(el.id) THEN "" ELSE " id=\"" \o el.id[2] \o "\"")
                 \o AttrMarkup(el.attrs, 1)
    IN  IF el.name \in VoidNames THEN open \o "/>"
        ELSE open \o ">" \o el.text \o Join("", inner, 1) \o "</" \o el.name \o ">"

-----------------------------------------------------------------------------
(* Helpers shared by the two parse_components *)

Entry(i, rec) == [el |-> i, rec |-> rec]

Rec1(k1, v1) == << <<k1, v1>> >>

Rec2(k1, v1, k2, v2) == << <<k1, v1>>, <<k2, v2>> >>

\* for tag in ...: text = tag.get_text(sep, strip=True)
\*                 if text: comps[...].append({"tag": tag.name, "text": text[:limit]})
RECURSIVE TextEntries(_, _, _, _, _)
TextEntries(doc, ids, n, sep, limit) ==
    IF n > Len(ids) THEN <<>>
    ELSE LET text == get_text(doc, ids[n], sep)
         IN  (IF text # ""
              THEN <<Entry(ids[n], Rec2("tag", Str(doc[ids[n]].name),
                                        "text", Str(Slice(text, limit))))>>
              ELSE <<>>)
             \o TextEntries(doc, ids, n + 1, sep, limit)

\* {"href": a["href"], "text": a.get_text(sep, strip=True)}
LinkEntry(doc, i, sep) ==
    Entry(i, Rec2("href", Attr(doc[i], "href"), "text", Str(get_text(doc, i, sep))))

\* {"src": img.get("src"), "alt": img.get("alt")}
ImageEntry(doc, i) ==
    Entry(i, Rec2("src", Attr(doc[i], "src"), "alt", Attr(doc[i], "alt")))

\* {"html": str(tag)[:limit]}
HtmlEntry(doc, i, limit) == Entry(i, Rec1("html", Str(Slice(Markup(doc, i), limit))))

\* {"action": form.get("action"), "method": (form.get("method") or "GET").upper()}
FormEntry(doc, i) ==
    LET m == Attr(doc[i], "method")
    IN  Entry(i, Rec2("action", Attr(doc[i], "action"),
                      "method", Str(Upper(IF Truthy(m) THEN m[2] ELSE "GET"))))

\* soup.find_all("a", href=True), and container.find_all("a", href=True)
IsHrefAnchor(el) == el.name = "a" /\ Has(el.attrs, "href")

HrefAnchors(doc) == SelectSeq(All(doc), LAMBDA i : IsHrefAnchor(doc[i]))

\* for nav in containers: for a in nav.find_all("a", href=True): append
RECURSIVE NavEntries(_, _, _, _)
NavEntries(doc, containers, n, sep) ==
    IF n > Len(containers) THEN <<>>
    ELSE LET as == SelectSeq(Descendants(doc, containers[n]),
                             LAMBDA i : IsHrefAnchor(doc[i]))
         IN  [k \in 1..Len(as) |-> LinkEntry(doc, as[k], sep)]
             \o NavEntries(doc, containers, n + 1, sep)

\* for div in containers: for img in div.find_all("img"): append
RECURSIVE GalleryEntries(_, _, _)
GalleryEntries(doc, containers, n) ==
    IF n > Len(containers) THEN <<>>
    ELSE LET imgs == SelectSeq(Descendants(doc, containers[n]),
                               LAMBDA i : doc[i].name = "img")
         IN  [k \in 1..Len(imgs) |-> ImageEntry(doc, imgs[k])]
             \o GalleryEntries(doc, containers, n + 1)

\* comps[ctype].append(e) for every e of entries, in order
AddAll(c, ctype, entries) ==
    IF entries = <<>> THEN c ELSE Put(c, ctype, GetList(c, ctype) \o entries)

ButtonTypes == {Str("button"), Str("submit"), Str("reset")}

-----------------------------------------------------------------------------
(* parse_components, src/app.py: the strict policy *)

TextLimitApp == 100

HtmlLimitApp == 120

\* class_=lambda c: c and kw in c.lower()
ClassHas(el, kw) == el.class # <<>> /\ Contains(Lower(Join(" ", el.class, 1)), kw)

IsGalleryApp(el) == el.name = "div" /\ ClassHas(el, "gallery")

IsButtonApp(el) ==
    /\ el.name \in {"button", "input"}
    /\ (el.name = "button" \/ Attr(el, "type") \in ButtonTypes)

\* a.find_parent("nav") is None
OutsideNavApp(doc, i) == \A a \in 1..Len(doc) : ~(IsAncestor(doc, a, i) /\ doc[a].name = "nav")

ClassifyApp(doc) ==
    LET els       == All(doc)
        headers   == SelectSeq(els, LAMBDA i : doc[i].name \in {"h1", "h2", "h3"})
        footers   == SelectSeq(els, LAMBDA i : doc[i].name = "footer")
        paras     == SelectSeq(els, LAMBDA i : doc[i].name = "p")
        navs      == SelectSeq(els, LAMBDA i : doc[i].name = "nav")
        galleries == SelectSeq(els, LAMBDA i : IsGalleryApp(doc[i]))
        alone     == SelectSeq(els, LAMBDA i :
                         /\ doc[i].name = "img"
                         /\ \A a \in 1..Len(doc) :
                               ~(IsAncestor(doc, a, i) /\ IsGalleryApp(doc[a])))
        links     == SelectSeq(HrefAnchors(doc), LAMBDA i : OutsideNavApp(doc, i))
        buttons   == SelectSeq(els, LAMBDA i : IsButtonApp(doc[i]))
        forms     == SelectSeq(els, LAMBDA i : doc[i].name = "form")
        modals    == SelectSeq(els, LAMBDA i :
                         doc[i].name = "div" /\ ClassHas(doc[i], "modal"))
        c1 == AddAll(<<>>, "header", TextEntries(doc, headers, 1, "", TextLimitApp))
        c2 == AddAll(c1, "footer", TextEntries(doc, footers, 1, "", TextLimitApp))
        c3 == AddAll(c2, "text_block", TextEntries(doc, paras, 1, "", TextLimitApp))
        c4 == AddAll(c3, "nav_bar", NavEntries(doc, navs, 1, ""))
        c5 == AddAll(c4, "image_gallery", GalleryEntries(doc, galleries, 1))
        c6 == AddAll(c5, "image_gallery", [k \in 1..Len(alone) |-> ImageEntry(doc, alone[k])])
        c7 == AddAll(c6, "link_block", [k \in 1..Len(links) |-> LinkEntry(doc, links[k], "")])
        c8 == AddAll(c7, "button_block",
                     [k \in 1..Len(buttons) |-> HtmlEntry(doc, buttons[k], HtmlLimitApp)])
        c9 == AddAll(c8, "forms", [k \in 1..Len(forms) |-> FormEntry(doc, forms[k])])
    IN  AddAll(c9, "modals",
               [k \in 1..Len(modals) |-> HtmlEntry(doc, modals[k], HtmlLimitApp)])

-----------------------------------------------------------------------------
(* parse_components, src/app1.py: the loose policy *)

TextLimitApp1 == 120

HtmlLimitApp1 == 150

\* has_kw(tag, *kws): a keyword occurs in the lower-cased, space-joined class
\* list followed by a space and the id
has_kw(el, kws) ==
    LET text == Lower(Join(" ", el.class, 1) \o " " \o (IF Truthy(el.id) THEN el.id[2] ELSE ""))
    IN  \E kw \in kws : Contains(text, kw)

IsHeaderApp1(el) ==
    el.name \in {"header", "h1", "h2", "h3"} \/ has_kw(el, {"header", "topbar", "title"})

IsFooterApp1(el) == el.name = "footer" \/ has_kw(el, {"footer", "bottom"})

IsParagraphApp1(el) == el.name = "p" \/ has_kw(el, {"paragraph", "text-block"})

IsNavApp1(el) == el.name = "nav" \/ has_kw(el, {"nav", "navbar", "menu"})

IsGalleryApp1(el) == has_kw(el, {"gallery", "carousel", "slider"})

IsButtonApp1(el) ==
    \/ el.name = "button"
    \/ (el.name = "input" /\ Attr(el, "type") \in ButtonTypes)
    \/ has_kw(el, {"btn", "button"})

IsModalApp1(el) == has_kw(el, {"modal", "dialog"})

\* The two generations of BeautifulSoup's search rules.  src/app1.py pins no
\* version, and line 79 hands find_parent a list of Tag objects as the name
\* to match, which the two generations treat differently.
SoupRules == {"strainer", "rules"}

\* callee(arg), i.e. callee.find_all(arg), finds something.  A Tag is
\* callable, so the strainer matches an element D against the Tag arg by
\* calling arg(D), which is arg.find_all(D), and so on down the two subtrees.
RECURSIVE TagCallFinds(_, _, _)
TagCallFinds(doc, callee, arg) ==
    \E d \in {Descendants(doc, callee)[n] : n \in 1..Len(Descendants(doc, callee))} :
        TagCallFinds(doc, arg, d)

\* a.find_parent(nav_elems) is not None
\*   "strainer" (bs4 before 4.13): an empty list is a falsy name, which every
\*        element matches, so the nearest parent is returned; a Tag of a
\*        non-empty list is called with the parent as its argument
\*   "rules" (bs4 4.13 and later): an empty list, and a list item that is
\*        itself iterable (a Tag is), become a rule that excludes everything
FindParentInList(rules, doc, i, nav_elems) ==
    IF rules = "strainer"
    THEN IF nav_elems = <<>>
         THEN Parents(doc, i) # <<>>
         ELSE \E n \in 1..Len(Parents(doc, i)), m \in 1..Len(nav_elems) :
                 TagCallFinds(doc, nav_elems[m], Parents(doc, i)[n])
    ELSE FALSE

ClassifyApp1(rules, doc) ==
    LET els       == All(doc)
        headers   == SelectSeq(els, LAMBDA i : IsHeaderApp1(doc[i]))
        footers   == SelectSeq(els, LAMBDA i : IsFooterApp1(doc[i]))
        paras     == SelectSeq(els, LAMBDA i : IsParagraphApp1(doc[i]))
        nav_elems == SelectSeq(els, LAMBDA i : IsNavApp1(doc[i]))
        galleries == SelectSeq(els, LAMBDA i : IsGalleryApp1(doc[i]))
        alone     == SelectSeq(els, LAMBDA i :
                         /\ doc[i].name = "img"
                         /\ \A a \in 1..Len(doc) :
                               ~(IsAncestor(doc, a, i) /\ IsGalleryApp1(doc[a])))
        links     == SelectSeq(HrefAnchors(doc),
                               LAMBDA i : ~FindParentInList(rules, doc, i, nav_elems))
        buttons   == SelectSeq(els, LAMBDA i : IsButtonApp1(doc[i]))
        forms     == SelectSeq(els, LAMBDA i : doc[i].name = "form")
        modals    == SelectSeq(els, LAMBDA i : IsModalApp1(doc[i]))
        c1 == AddAll(<<>>, "header", TextEntries(doc, headers, 1, " ", TextLimitApp1))
        c2 == AddAll(c1, "footer", TextEntries(doc, footers, 1, " ", TextLimitApp1))
        c3 == AddAll(c2, "text_block", TextEntries(doc, paras, 1, " ", TextLimitApp1))
        c4 == AddAll(c3, "nav_bar", NavEntries(doc, nav_elems, 1, " "))
        c5 == AddAll(c4, "image_gallery", GalleryEntries(doc, galleries, 1))
        c6 == AddAll(c5, "image_gallery", [k \in 1..Len(alone) |-> ImageEntry(doc, alone[k])])
        c7 == AddAll(c6, "link_block", [k \in 1..Len(links) |-> LinkEntry(doc, links[k], " ")])
        c8 == AddAll(c7, "button_block",
                     [k \in 1..Len(buttons) |-> HtmlEntry(doc, buttons[k], HtmlLimitApp1)])
        c9 == AddAll(c8, "forms", [k \in 1..Len(forms) |-> FormEntry(doc, forms[k])])
    IN  AddAll(c9, "modals",
               [k \in 1..Len(modals) |-> HtmlEntry(doc, modals[k], HtmlLimitApp1)])

\* the classifier of variant v: dict ctype -> list of [el, rec]
Classify(v, rules, doc) ==
    IF v = "app" THEN ClassifyApp(doc) ELSE ClassifyApp1(rules, doc)

\* the records alone, and the elements alone
RecordsOf(c) ==
    [j \in 1..Len(c) |-> <<c[j][1], [i \in 1..Len(c[j][2]) |-> c[j][2][i].rec]>>]

ElementsOf(c) ==
    [j \in 1..Len(c) |-> <<c[j][1], [i \in 1..Len(c[j][2]) |-> c[j][2][i].el]>>]

parse_components(v, rules, doc) == RecordsOf(Classify(v, rules, doc))

-----------------------------------------------------------------------------
(* Classification results as the classifier builds them *)

\* comps[ctype].append(rec) on a defaultdict(list)
AppendTo(c, ctype, rec) == Put(c, ctype, Append(GetList(c, ctype), rec))

\* the dict built by appending the <<ctype, record>> pairs of s in order
RECURSIVE Collect(_, _)
Collect(s, n) ==
    IF n = 0 THEN <<>> ELSE AppendTo(Collect(s, n - 1), s[n][1], s[n][2])

RECURSIVE Total(_, _)
Total(c, j) == IF j = 0 THEN 0 ELSE Total(c, j - 1) + Len(c[j][2])

\* Every append of parse_components stores a fresh dict literal, so the
\* records of a classification result are distinct objects: the j-th
\* category's i-th record becomes object Total(c, j - 1) + i.
Alloc(c) ==
    [heap  |-> [o \in 1..Total(c, Len(c)) |->
                  LET j == CHOOSE j \in 1..Len(c) :
                               Total(c, j - 1) < o /\ o <= Total(c, j)
                  IN  c[j][2][o - Total(c, j - 1)]],
     comps |-> [j \in 1..Len(c) |->
                  <<c[j][1], [i \in 1..Len(c[j][2]) |-> Total(c, j - 1) + i]>>]]

\* the value a dict of object-id lists stands for
Deref(h, c) ==
    [j \in 1..Len(c) |-> <<c[j][1], [i \in 1..Len(c[j][2]) |-> h[c[j][2][i]]]>>]

-----------------------------------------------------------------------------
(* extract_html_from_mhtml (the same in src/app.py and src/app1.py).  An   *)
(* uploaded file is modelled as what email.message_from_string(...).walk() *)
(* yields: its parts in walk order, each a record                          *)
(*   ctype    the value of its Content-Type header, None when it has none  *)
(*   payload  what get_payload(decode=True) returns: None for a multipart  *)
(*            container, else bytes.  Bytes are a sequence of chunks, each *)
(*            a run of ASCII bytes or one byte that is not valid UTF-8     *)

Bytes(chunks) == <<"bytes", chunks>>

Part(ctype, payload) == [ctype |-> ctype, payload |-> payload]

InvalidByte == "\\xff"

\* part.get_content_type(): the header up to its first ";", stripped and
\* lower-cased; text/plain when there is no header or it is not one
\* maintype/subtype pair
get_content_type(part) ==
    IF IsNone(part.ctype) THEN "text/plain"
    ELSE LET value == part.ctype[2]
             semis == {i \in 1..Len(value) : SubSeq(value, i, i) = ";"}
             stop  == IF semis = {} THEN Len(value)
                      ELSE (CHOOSE i \in semis : \A j \in semis : i <= j) - 1
             ctype == Lower(Strip(SubSeq(value, 1, stop)))
         IN  IF Cardinality({i \in 1..Len(ctype) : SubSeq(ctype, i, i) = "/"}) # 1
             THEN "text/plain"
             ELSE ctype

\* html.decode(errors="ignore"): the bytes that are not valid are dropped
Decode(bytes) == Join("", SelectSeq(bytes[2], LAMBDA c : c # InvalidByte), 1)

\* lines 35-40 (app.py): the loop over msg.walk() from part n on
RECURSIVE WalkFrom(_, _)
WalkFrom(parts, n) ==
    IF n > Len(parts) THEN None
    ELSE IF /\ get_content_type(parts[n]) = "text/html"
            /\ ~IsNone(parts[n].payload)
            /\ parts[n].payload[2] # <<>>
         THEN Str(Decode(parts[n].payload))
         ELSE WalkFrom(parts, n + 1)

extract_html_from_mhtml(parts) == WalkFrom(parts, 1)

-----------------------------------------------------------------------------
(* generate_components_json, src/app.py *)

\* lines 166-176
mapping ==
    << <<"header", "Header/Footer">>, <<"footer", "Header/Footer">>,
       <<"text_block", "Text Block">>, <<"image_gallery", "Image Gallery">>,
       <<"nav_bar", "Navigation Bar">>, <<"link_block", "Link Block">>,
       <<"button_block", "Button Block">>, <<"forms", "Form">>, <<"modals", "Modal">> >>

\* an aggregation that replaces a group's entry instead of adding to it
Overwrite(file_obj, group, items) ==
    Put(file_obj, group, [count |-> Len(items), details |-> items])

\* lines 181-183: file_obj[group]["count"] += len(items)
\*                file_obj[group]["details"].extend(items)
Accumulate(file_obj, group, items) ==
    LET old == IF Has(file_obj, group) THEN Get(file_obj, group)
               ELSE [count |-> 0, details |-> <<>>]
    IN  Put(file_obj, group,
            [count |-> old.count + Len(items), details |-> old.details \o items])

\* lines 179-183: the file_obj built from the first n categories of c
RECURSIVE FileObj(_, _)
FileObj(c, n) ==
    IF n = 0 THEN <<>>
    ELSE Accumulate(FileObj(c, n - 1), Get(mapping, c[n][1]), c[n][2])

\* lines 177-185
RECURSIVE GenerateFrom(_, _)
GenerateFrom(pages_dict, n) ==
    IF n = 0 THEN <<>>
    ELSE Put(GenerateFrom(pages_dict, n - 1), pages_dict[n][1],
             FileObj(pages_dict[n][2], Len(pages_dict[n][2])))

generate_components_json(pages_dict) == GenerateFrom(pages_dict, Len(pages_dict))

\* lines 236-248: the sample page summary
SampleSummary ==
    << <<"sample.mhtml",
         << <<"header", <<Rec2("tag", Str("h1"), "text", Str("Welcome"))>> >>,
            <<"footer", <<Rec2("tag", Str("footer"), "text", Str("Contact"))>> >>,
            <<"text_block", <<Rec2("tag", Str("p"), "text", Str("Lorem ipsum"))>> >>,
            <<"image_gallery", <<Rec2("src", Str("logo.png"), "alt", Str("Logo"))>> >>,
            <<"nav_bar", <<Rec2("href", Str("/home"), "text", Str("Home"))>> >>,
            <<"link_block", <<Rec2("href", Str("/about"), "text", Str("About"))>> >>,
            <<"button_block", <<Rec1("html", Str("<button>Click</button>"))>> >>,
            <<"forms", <<Rec2("action", Str("/send"), "method", Str("POST"))>> >>,
            <<"modals", <<Rec1("html", Str("<div class='modal'>Modal</div>"))>> >> >> >> >>

-----------------------------------------------------------------------------
(* visualize_components and analyze_components_with_gpt, src/app.py *)

\* lines 195-204
types ==
    <<"Header/Footer", "Navigation Bar", "Text Block", "Image Gallery", "Link Block",
      "Button Block", "Form", "Modal">>

\* lines 190-218: the table of counts (one row per file) and the JSON per file
visualize_components(view) ==
    IF view = <<>> THEN <<"info", "Nothing to display yet.">>
    ELSE <<"table",
           [f \in 1..Len(view) |->
              <<view[f][1],
                [t \in 1..Len(types) |->
                   IF Has(view[f][2], types[t]) THEN Get(view[f][2], types[t]).count
                   ELSE 0]>>],
           view>>

\* l[:n]
Take(l, n) == SubSeq(l, 1, Min(n, Len(l)))

\* f'{x}'
FStr(v) == IF IsNone(v) THEN "None" ELSE v[2]

\* lines 131-144
Compact(pages_dict) ==
    [f \in 1..Len(pages_dict) |->
       LET c          == pages_dict[f][2]
           Tagged(l)  == [n \in 1..Len(l) |->
                            FStr(Get(l[n], "tag")) \o ": " \o FStr(Get(l[n], "text"))]
           Field(l, k) == [n \in 1..Len(l) |-> Get(l[n], k)]
           AltOrSrc(l) == [n \in 1..Len(l) |->
                            IF Truthy(Get(l[n], "alt")) THEN Get(l[n], "alt")
                            ELSE Get(l[n], "src")]
       IN  <<pages_dict[f][1],
             << <<"header", Tagged(Take(GetList(c, "header"), 3))>>,
                <<"footer", Tagged(Take(GetList(c, "footer"), 3))>>,
                <<"text_block", Tagged(Take(GetList(c, "text_block"), 3))>>,
                <<"nav_bar", Field(Take(GetList(c, "nav_bar"), 3), "text")>>,
                <<"image_gallery", AltOrSrc(Take(GetList(c, "image_gallery"), 2))>>,
                <<"link_block", Field(Take(GetList(c, "link_block"), 2), "text")>>,
                <<"button_block", Field(Take(GetList(c, "button_block"), 1), "html")>>,
                <<"forms", GetList(c, "forms")>>,
                <<"modals", Field(Take(GetList(c, "modals"), 1), "html")>> >> >>]

\* an analysis without the check for an empty page summary
AlwaysRequest(pages_dict, reply) ==
    [sent |-> <<Compact(pages_dict)>>, result |-> Str(reply)]

\* lines 126-161: [sent, result], sent being the requests made (none or one)
\* and result what is returned when the service answers with reply
analyze_components_with_gpt(pages_dict, reply) ==
    IF pages_dict = <<>>
    THEN [sent |-> <<>>, result |-> Str("No pages to analyse.")]
    ELSE [sent |-> <<Compact(pages_dict)>>, result |-> Str(reply)]

-----------------------------------------------------------------------------
(* main, src/app.py lines 222-268 and src/app1.py lines 126-162 *)

MaxFiles == 5

\* lines 137-149 of src/app1.py (its ellipsis written as three dots)
SampleSummaryApp1 ==
    << <<"sample.mhtml",
         << <<"header", <<Rec2("tag", Str("h1"), "text", Str("Welcome"))>> >>,
            <<"footer", <<Rec2("tag", Str("footer"), "text", Str("Contact us"))>> >>,
            <<"text_block", <<Rec2("tag", Str("p"), "text", Str("Lorem ipsum..."))>> >>,
            <<"image_gallery", <<Rec2("src", Str("logo.png"), "alt", Str("logo"))>> >>,
            <<"nav_bar", <<Rec2("href", Str("/home"), "text", Str("Home"))>> >>,
            <<"link_block", <<Rec2("href", Str("/about"), "text", Str("About"))>> >>,
            <<"button_block", <<Rec1("html", Str("<button>Click</button>"))>> >>,
            <<"forms", <<Rec2("action", Str("/submit"), "method", Str("POST"))>> >>,
            <<"modals", <<Rec1("html", Str("<div class='modal'>Demo</div>"))>> >> >> >> >>

\* the document the uploads of the model hold: a nav with a link, a heading
\* and the same image twice
KnownDocs ==
    { Wrapper \o << [Element("nav", <<>>, None, <<>>, "") EXCEPT !.depth = 3],
                    [Element("a", <<>>, None, << <<"href", "/home">> >>, "Home")
                        EXCEPT !.depth = 4],
                    [Element("h1", <<>>, None, <<>>, "Welcome") EXCEPT !.depth = 3],
                    [Element("img", <<>>, None, << <<"src", "logo.png">> >>, "")
                        EXCEPT !.depth = 3],
                    [Element("img", <<>>, None, << <<"src", "logo.png">> >>, "")
                        EXCEPT !.depth = 3] >> }

KnownMarkup == [d \in KnownDocs |-> Markup(d, 1)]

\* BeautifulSoup(html, "lxml"): the tree whose markup the text is; a text that
\* is no document of the model parses to the empty document
BeautifulSoup(text) ==
    IF \E d \in KnownDocs : KnownMarkup[d] = text
    THEN CHOOSE d \in KnownDocs : KnownMarkup[d] = text
    ELSE Wrapper

\* clean_components(parse_components(html)), as the value stored in the page
\* summary
CleanedComponents(v, rules, text) ==
    LET a == Alloc(parse_components(v, rules, BeautifulSoup(text)))
        r == clean_components(v, a.heap, a.comps)
    IN  Deref(r.heap, r.clean)

\* a loop over every upload
AllFiles(files) == files

\* uploaded_files[:5]
FilesToProcess(files) == Take(files, MaxFiles)

-----------------------------------------------------------------------------
(* The parts of the state a specification does not use stay as they are here *)

NoParse == tree = <<>> /\ origin = <<>>

NoClean ==
    heap = <<>> /\ heap0 = <<>> /\ comps = <<>> /\ cleaned = <<>> /\ cleaned2 = <<>>

NoExtract == archive = <<>> /\ html = None

NoMain ==
    /\ uploaded = <<>> /\ idx = 0 /\ reads = <<>> /\ warnings = <<>>
    /\ page_summary = <<>> /\ components_json = <<>> /\ shown = <<>>
    /\ clicked = FALSE /\ requests = <<>> /\ analysis = None

-----------------------------------------------------------------------------
(* Specification SpecClean: clean_components applied to a classification   *)
(* result, and applied again to its own result                             *)

MaxRecords == 3

ImageRecords ==
    { Rec2("src", s, "alt", a) : s \in {None, Str("logo.png")}, a \in {None, Str("")} }
    \cup { Rec2("alt", None, "src", Str("logo.png")) }

LinkRecords == { Rec2("href", Str("/home"), "text", t) : t \in {None, Str(""), Str("Home")} }

HeaderRecords == { Rec2("tag", Str("h1"), "text", None) }

TaggedRecords ==
    ({"image_gallery"} \X ImageRecords) \cup ({"link_block"} \X LinkRecords)
    \cup ({"nav_bar"} \X LinkRecords) \cup ({"header"} \X HeaderRecords)

RECURSIVE SeqsUpTo(_, _)
SeqsUpTo(S, n) ==
    IF n = 0 THEN { <<>> }
    ELSE LET shorter == SeqsUpTo(S, n - 1)
         IN  shorter \cup { Append(q, x) : q \in {r \in shorter : Len(r) = n - 1}, x \in S }

InitClean ==
    /\ variant \in Variants
    /\ bs4 = "strainer"
    /\ pc = "start"
    /\ NoParse /\ NoExtract /\ NoMain
    /\ \E s \in SeqsUpTo(TaggedRecords, MaxRecords) :
          LET a == Alloc(Collect(s, Len(s)))
          IN  heap = a.heap /\ heap0 = a.heap /\ comps = a.comps
    /\ cleaned = <<>>
    /\ cleaned2 = <<>>

\* cleaned = clean_components(comps)
CleanOnce ==
    /\ pc = "start"
    /\ LET r == clean_components(variant, heap, comps)
       IN  heap' = r.heap /\ cleaned' = r.clean
    /\ pc' = "cleaned"
    /\ UNCHANGED <<variant, bs4, parseVars, extractVars, mainVars, heap0, comps, cleaned2>>

\* cleaned2 = clean_components(cleaned)
CleanAgain ==
    /\ pc = "cleaned"
    /\ LET r == clean_components(variant, heap, cleaned)
       IN  heap' = r.heap /\ cleaned2' = r.clean
    /\ pc' = "recleaned"
    /\ UNCHANGED <<variant, bs4, parseVars, extractVars, mainVars, heap0, comps, cleaned>>

NextClean == CleanOnce \/ CleanAgain

SpecClean == InitClean /\ [][NextClean]_vars

-----------------------------------------------------------------------------
(* Specifications SpecNav and SpecParse: parse_components applied to an    *)
(* element tree, then clean_components applied to its result               *)

MaxNavNodes == 3

MaxTextNodes == 2

\* the documents of at most n elements under body, built from the templates:
\* an element is a child of the one before it, or a later sibling of it or of
\* one of its ancestors; img and input hold nothing
DeepestNext(d) ==
    LET last == d[Len(d)]
    IN  IF last.name \in VoidNames THEN last.depth ELSE last.depth + 1

RECURSIVE DocsUpTo(_, _)
DocsUpTo(templates, n) ==
    IF n = 0 THEN { Wrapper }
    ELSE LET shorter == DocsUpTo(templates, n - 1)
         IN  shorter \cup
             UNION { { Append(d, [t EXCEPT !.depth = k]) :
                         t \in templates, k \in 3..DeepestNext(d) } :
                     d \in {e \in shorter : Len(e) = n + 1} }

NavTemplates ==
    { Element("nav", <<>>, None, <<>>, ""),
      Element("div", <<"Main-Menu">>, None, <<>>, ""),
      Element("div", <<>>, None, <<>>, ""),
      Element("a", <<>>, None, << <<"href", "/home">> >>, " Home "),
      Element("a", <<>>, None, <<>>, "Top") }

InitNav ==
    /\ variant \in Variants
    /\ bs4 \in SoupRules
    /\ pc = "document"
    /\ tree \in DocsUpTo(NavTemplates, MaxNavNodes)
    /\ origin = <<>>
    /\ NoClean /\ NoExtract /\ NoMain

\* comps = parse_components(html)
Parse ==
    /\ pc = "document"
    /\ LET c == Classify(variant, bs4, tree)
           a == Alloc(RecordsOf(c))
       IN  /\ heap' = a.heap
           /\ heap0' = a.heap
           /\ comps' = a.comps
           /\ origin' = Alloc(ElementsOf(c)).heap
    /\ pc' = "start"
    /\ UNCHANGED <<variant, bs4, tree, cleaned, cleaned2, extractVars, mainVars>>

NextParse == Parse \/ CleanOnce

SpecNav == InitNav /\ [][NextParse]_vars

TextTemplates ==
    { Element("img", <<>>, None, <<>>, ""),
      Element("img", <<>>, None, << <<"src", "logo.png">>, <<"alt", "">> >>, ""),
      Element("div", <<"Gallery">>, None, <<>>, ""),
      Element("h1", <<>>, None, <<>>, Repeat("h", 130)),
      Element("footer", <<>>, None, <<>>, Repeat("f", 110)),
      Element("p", <<>>, None, <<>>, " " \o Repeat("p", 60) \o " "),
      Element("button", <<>>, None, <<>>, Repeat("b", 140)),
      Element("div", <<"modal">>, None, <<>>, Repeat("m", 115)) }

InitParse ==
    /\ variant \in Variants
    /\ bs4 \in SoupRules
    /\ pc = "document"
    /\ tree \in DocsUpTo(TextTemplates, MaxTextNodes)
    /\ origin = <<>>
    /\ NoClean /\ NoExtract /\ NoMain

SpecParse == InitParse /\ [][NextParse]_vars

-----------------------------------------------------------------------------
(* Specification SpecExtract: extract_html_from_mhtml applied to an archive *)

MaxParts == 3

Payloads ==
    { Bytes(<<>>), Bytes(<<InvalidByte>>), Bytes(<<"<p>A</p>">>),
      Bytes(<<"<p>", InvalidByte, "B</p>">>) }

Parts ==
    { Part(Str("multipart/related; boundary=\"x\""), None) }
    \cup { Part(c, b) :
             c \in {None, Str("text/html"), Str("Text/HTML; charset=\"utf-8\""),
                    Str("text/plain")},
             b \in Payloads }

InitExtract ==
    /\ variant \in Variants
    /\ bs4 = "strainer"
    /\ pc = "archive"
    /\ archive \in SeqsUpTo(Parts, MaxParts)
    /\ html = None
    /\ NoParse /\ NoClean /\ NoMain

\* html = extract_html_from_mhtml(file)
Extract ==
    /\ pc = "archive"
    /\ html' = extract_html_from_mhtml(archive)
    /\ pc' = "extracted"
    /\ UNCHANGED <<variant, bs4, archive, parseVars, cleanVars, mainVars>>

NextExtract == Extract

SpecExtract == InitExtract /\ [][NextExtract]_vars

-----------------------------------------------------------------------------
(* Specification SpecAggregate: generate_components_json applied to a page *)
(* summary of one or two files                                             *)

SummaryRecords ==
    { <<"header", Rec2("tag", Str("h1"), "text", Str("Welcome"))>>,
      <<"header", Rec2("tag", Str("h2"), "text", Str("News"))>>,
      <<"footer", Rec2("tag", Str("footer"), "text", Str("Contact"))>>,
      <<"text_block", Rec2("tag", Str("p"), "text", Str("Lorem ipsum"))>>,
      <<"nav_bar", Rec2("href", Str("/home"), "text", Str("Home"))>> }

\* what clean_components returns for the records of s: in src/app.py the
\* result also holds image_gallery, link_block and nav_bar when they are empty
CleanedSummaries ==
    { LET a == Alloc(Collect(s, Len(s)))
          r == clean_components(v, a.heap, a.comps)
      IN  Deref(r.heap, r.clean) :
        s \in SeqsUpTo(SummaryRecords, MaxRecords), v \in Variants }

InitAggregate ==
    /\ variant = "app"
    /\ bs4 = "strainer"
    /\ pc = "summary"
    /\ \E c \in CleanedSummaries :
          page_summary \in { << <<"page.mhtml", c>> >>,
                             << <<"page.mhtml", c>> >> \o SampleSummary,
                             SampleSummary \o << <<"page.mhtml", c>> >> }
    /\ uploaded = <<>> /\ idx = 0 /\ reads = <<>> /\ warnings = <<>>
    /\ components_json = <<>> /\ shown = <<>>
    /\ clicked = FALSE /\ requests = <<>> /\ analysis = None
    /\ NoParse /\ NoClean /\ NoExtract

\* components_json = generate_components_json(page_summary)
Generate ==
    /\ pc = "summary"
    /\ components_json' = generate_components_json(page_summary)
    /\ pc' = "generated"
    /\ UNCHANGED <<variant, bs4, parseVars, cleanVars, extractVars, uploaded, idx, reads,
                   warnings, page_summary, shown, clicked, requests, analysis>>

NextAggregate == Generate

SpecAggregate == InitAggregate /\ [][NextAggregate]_vars

-----------------------------------------------------------------------------
(* Specification SpecMain: one run of main on an upload list *)

MaxUploads == 6

\* the archives an upload may be: one without an HTML part, one whose only
\* HTML part decodes to nothing, and one that holds the known document, its
\* HTML part after a multipart container and an empty HTML part
UploadKinds ==
    { << Part(Str("text/plain"), Bytes(<<"hello">>)) >>,
      << Part(Str("text/html"), Bytes(<<InvalidByte>>)) >> }
    \cup { << Part(Str("multipart/related; boundary=\"x\""), None),
              Part(Str("text/html"), Bytes(<<>>)),
              Part(Str("Text/HTML; charset=\"utf-8\""), Bytes(<<KnownMarkup[d]>>)) >> :
           d \in KnownDocs }

\* the i-th upload's file name: the names of one upload list are distinct
FileName(i) == Repeat("f", i) \o ".mhtml"

InitMain ==
    /\ variant \in Variants
    /\ bs4 \in SoupRules
    /\ pc = "upload"
    /\ \E kinds \in SeqsUpTo(UploadKinds, MaxUploads) :
          uploaded = [i \in 1..Len(kinds) |-> [name |-> FileName(i), parts |-> kinds[i]]]
    /\ idx = 0
    /\ reads = [i \in 1..Len(uploaded) |-> 0]
    /\ warnings = <<>>
    /\ page_summary = <<>> /\ components_json = <<>> /\ shown = <<>>
    /\ clicked = FALSE /\ requests = <<>> /\ analysis = None
    /\ NoParse /\ NoClean /\ NoExtract

\* app.py lines 234-250, app1.py lines 135-151: the sample without uploads
Start ==
    /\ pc = "upload"
    /\ IF uploaded = <<>>
       THEN /\ page_summary' = (IF variant = "app" THEN SampleSummary ELSE SampleSummaryApp1)
            /\ pc' = "display"
            /\ idx' = idx
       ELSE /\ page_summary' = <<>>
            /\ pc' = "loop"
            /\ idx' = 1
    /\ UNCHANGED <<variant, bs4, parseVars, cleanVars, extractVars, uploaded, reads,
                   warnings, components_json, shown, clicked, requests, analysis>>

\* app.py lines 251-257, app1.py lines 152-158: one iteration of the loop
ProcessFile ==
    /\ pc = "loop"
    /\ idx <= Len(FilesToProcess(uploaded))
    /\ LET file == FilesToProcess(uploaded)[idx]
           text == extract_html_from_mhtml(file.parts)
       IN  /\ reads' = [reads EXCEPT ![idx] = @ + 1]
           /\ IF ~Truthy(text)
              THEN /\ warnings' = Append(warnings, file.name)
                   /\ page_summary' = page_summary
              ELSE /\ warnings' = warnings
                   /\ page_summary' =
                         Put(page_summary, file.name,
                             CleanedComponents(variant, bs4, text[2]))
    /\ idx' = idx + 1
    /\ UNCHANGED <<variant, bs4, pc, parseVars, cleanVars, extractVars, uploaded,
                   components_json, shown, clicked, requests, analysis>>

\* app.py lines 260-261: aggregate and show; app1.py lines 161-162: show
Display ==
    /\ \/ pc = "display"
       \/ pc = "loop" /\ idx > Len(FilesToProcess(uploaded))
    /\ IF variant = "app"
       THEN /\ components_json' = generate_components_json(page_summary)
            /\ shown' = visualize_components(components_json')
            /\ pc' = "button"
       ELSE /\ components_json' = components_json
            /\ shown' = <<"json", page_summary>>
            /\ pc' = "done"
    /\ UNCHANGED <<variant, bs4, parseVars, cleanVars, extractVars, uploaded, idx, reads,
                   warnings, page_summary, clicked, requests, analysis>>

\* app.py lines 264-268 with the button pressed: the service answers, or the
\* request fails and the exception ends the run
Analyse ==
    /\ pc = "button"
    /\ clicked' = TRUE
    /\ LET r == analyze_components_with_gpt(page_summary, "insights")
       IN  /\ requests' = requests \o r.sent
           /\ \/ analysis' = r.result /\ pc' = "done"
              \/ r.sent # <<>> /\ analysis' = analysis /\ pc' = "failed"
    /\ UNCHANGED <<variant, bs4, parseVars, cleanVars, extractVars, uploaded, idx, reads,
                   warnings, page_summary, components_json, shown>>

\* app.py line 264 with the button not pressed
NoAnalysis ==
    /\ pc = "button"
    /\ pc' = "done"
    /\ UNCHANGED <<variant, bs4, parseVars, cleanVars, extractVars, mainVars>>

NextMain == Start \/ ProcessFile \/ Display \/ Analyse \/ NoAnalysis

SpecMain == InitMain /\ [][NextMain]_vars

-----------------------------------------------------------------------------
(* Claims about clean_components (checked under SpecClean) *)

\* two records have the same canonical serialization: the same keys with the
\* same values, whatever the order the keys were inserted in
SameSerialization(d1, d2) ==
    {d1[i] : i \in 1..Len(d1)} = {d2[i] : i \in 1..Len(d2)}

\* the subsequence of items whose record has no equal record before it in h
RECURSIVE FirstOccurrences(_, _, _)
FirstOccurrences(h, items, i) ==
    IF i > Len(items) THEN <<>>
    ELSE (IF \A j \in 1..(i - 1) : ~SameSerialization(h[items[j]], h[items[i]])
          THEN <<items[i]>> ELSE <<>>)
         \o FirstOccurrences(h, items, i + 1)

\* C1: for each category, clean_components returns exactly the input's
\* records (the same objects, in input order) that are the first occurrence
\* of their canonical serialization as it was when the call was made; later
\* equal records are dropped wherever they are in the category, and no
\* category gains or loses a record because of another category.
C1_FirstOccurrencesKept ==
    pc # "start" =>
        /\ \A j \in 1..Len(comps) :
              GetList(cleaned, comps[j][1]) = FirstOccurrences(heap0, comps[j][2], 1)
        /\ \A j \in 1..Len(cleaned) :
              Has(comps, cleaned[j][1]) \/ cleaned[j][2] = <<>>

\* a category of three records, the third equal to the first (with its keys
\* in another order) and not to the second, was cleaned to the first two
C1_Witness ==
    /\ pc = "cleaned"
    /\ \E j \in 1..Len(comps) :
          LET items == comps[j][2]
          IN  /\ Len(items) = 3
              /\ SameSerialization(heap0[items[1]], heap0[items[3]])
              /\ heap0[items[1]] # heap0[items[3]]
              /\ ~SameSerialization(heap0[items[1]], heap0[items[2]])
              /\ GetList(cleaned, comps[j][1]) = <<items[1], items[2]>>

\* Python equality of two dicts of record lists: the same keys, and under
\* each key equal lists of equal records
CompsEqual(h, c1, c2) ==
    /\ {c1[j][1] : j \in 1..Len(c1)} = {c2[j][1] : j \in 1..Len(c2)}
    /\ \A j \in 1..Len(c1) :
          LET l1 == c1[j][2]
              l2 == Get(c2, c1[j][1])
          IN  /\ Len(l1) = Len(l2)
              /\ \A i \in 1..Len(l1) : SameSerialization(h[l1[i]], h[l2[i]])

\* C2: clean_components(clean_components(c)) equals clean_components(c)
C2_Idempotent ==
    pc = "recleaned" => CompsEqual(heap, cleaned2, cleaned)

\* C10: clean_components leaves the records of its input as they were
C10_InputUnchanged ==
    pc # "start" => heap = heap0

-----------------------------------------------------------------------------
(* Claims about parse_components (checked under SpecNav and SpecParse) *)

\* the elements whose records the classifier put under ctype
Recorded(ctype) ==
    LET ids == GetList(comps, ctype) IN {origin[ids[n]] : n \in 1..Len(ids)}

\* the nav rule of the active policy
MatchesNavRule(v, el) == IF v = "app" THEN el.name = "nav" ELSE IsNavApp1(el)

InsideNav(v, doc, i) ==
    \E a \in 1..Len(doc) : IsAncestor(doc, a, i) /\ MatchesNavRule(v, doc[a])

\* C4: an anchor with an href that has a nav-matching ancestor is recorded in
\* nav_bar and not in link_block; one that has none is recorded in link_block
\* and not in nav_bar.
C4_NavLinksSeparated ==
    pc # "document" =>
        \A i \in 1..Len(tree) :
            IsHrefAnchor(tree[i]) =>
                IF InsideNav(variant, tree, i)
                THEN i \in Recorded("nav_bar") /\ i \notin Recorded("link_block")
                ELSE i \in Recorded("link_block") /\ i \notin Recorded("nav_bar")

\* the same, of the strict policy alone
C4_StrictOnly == variant = "app" => C4_NavLinksSeparated

\* the loose policy never keeps a link inside a nav container out of link_block
C4_LooseInsideNav ==
    (pc # "document" /\ variant = "app1") =>
        \A i \in 1..Len(tree) :
            (IsHrefAnchor(tree[i]) /\ InsideNav(variant, tree, i)) =>
                i \in Recorded("link_block")

\* the records of list ids have no null src, alt or text
NoNullFields(h, ids) ==
    \A n \in 1..Len(ids), k \in {"src", "alt", "text"} :
        Has(h[ids[n]], k) => ~IsNone(Get(h[ids[n]], k))

\* C3: after parse_components and clean_components, no record of any category
\* of the result has a null src, alt or text, and an image record of an
\* element without a src (alt) attribute has the empty string there.
C3_NoNullAfterClean ==
    pc = "cleaned" =>
        /\ \A j \in 1..Len(cleaned) : NoNullFields(heap, cleaned[j][2])
        /\ LET imgs == GetList(cleaned, "image_gallery")
           IN  \A n \in 1..Len(imgs), k \in {"src", "alt"} :
                  ~Has(tree[origin[imgs[n]]].attrs, k) => Get(heap[imgs[n]], k) = Str("")

\* an img element without src and alt was classified with null fields and
\* the cleaned result holds its record
C3_Witness ==
    /\ pc = "cleaned"
    /\ LET imgs == GetList(cleaned, "image_gallery")
       IN  \E n \in 1..Len(imgs) :
              /\ tree[origin[imgs[n]]].attrs = <<>>
              /\ Get(heap0[imgs[n]], "src") = None
              /\ Get(heap0[imgs[n]], "alt") = None

\* the records of list ids hold at most n characters under key k
Within(h, ids, k, n) == \A m \in 1..Len(ids) : Len(Get(h[ids[m]], k)[2]) <= n

\* the truncation limits hold of every record of result c
RespectsLimits(h, c, text_limit, html_limit) ==
    /\ \A ctype \in {"header", "footer", "text_block"} :
          Within(h, GetList(c, ctype), "text", text_limit)
    /\ \A ctype \in {"button_block", "modals"} :
          Within(h, GetList(c, ctype), "html", html_limit)

\* C9: every header, footer and text_block text has at most 120 characters
\* (100 in src/app.py) and every button_block and modals html at most 150
\* (120 in src/app.py), after parse_components and still after
\* clean_components.
C9_TruncationLimits ==
    /\ pc \in {"start", "cleaned"} =>
          IF variant = "app" THEN RespectsLimits(heap, comps, 100, 120)
          ELSE RespectsLimits(heap, comps, 120, 150)
    /\ pc = "cleaned" =>
          IF variant = "app" THEN RespectsLimits(heap, cleaned, 100, 120)
          ELSE RespectsLimits(heap, cleaned, 120, 150)

\* the loose policy cut a header text and a button's markup that were longer
\* than their limits down to exactly 120 and 150 characters, and the cleaned
\* result holds both records
C9_Witness ==
    /\ pc = "cleaned"
    /\ variant = "app1"
    /\ \E o \in {GetList(cleaned, "header")[n] : n \in 1..Len(GetList(cleaned, "header"))} :
          /\ Len(Get(heap[o], "text")[2]) = 120
          /\ Len(get_text(tree, origin[o], " ")) > 120
    /\ \E o \in {GetList(cleaned, "button_block")[n] :
                    n \in 1..Len(GetList(cleaned, "button_block"))} :
          /\ Len(Get(heap[o], "html")[2]) = 150
          /\ Len(Markup(tree, origin[o])) > 150

-----------------------------------------------------------------------------
(* Claims about extract_html_from_mhtml (checked under SpecExtract) *)

\* the places of the parts whose content type is exactly text/html
HtmlParts(parts) == {n \in 1..Len(parts) : get_content_type(parts[n]) = "text/html"}

\* C6: the result is the decoded text of the first text/html part in walk
\* order; when there is no such part, or the payload of that first part is
\* empty, it is None, never the payload of a later or of another part.
C6_FirstHtmlPartOrNone ==
    pc = "extracted" =>
        IF HtmlParts(archive) = {} THEN html = None
        ELSE LET first == CHOOSE n \in HtmlParts(archive) :
                              \A m \in HtmlParts(archive) : n <= m
                 body  == archive[first].payload
             IN  IF IsNone(body) \/ body[2] = <<>> THEN html = None
                 ELSE html = Str(Decode(body))

\* what the code does instead: the first text/html part that has a payload
C6_FirstNonEmptyHtmlPart ==
    pc = "extracted" =>
        LET full == {n \in HtmlParts(archive) :
                        ~IsNone(archive[n].payload) /\ archive[n].payload[2] # <<>>}
        IN  IF full = {} THEN html = None
            ELSE html = Str(Decode(archive[CHOOSE n \in full : \A m \in full : n <= m].payload))

-----------------------------------------------------------------------------
(* Claims about generate_components_json (checked under SpecAggregate) *)

\* the display groups and the categories that fold into each
GroupCategories ==
    [g \in {"Header/Footer", "Text Block", "Image Gallery", "Navigation Bar",
            "Link Block", "Button Block", "Form", "Modal"} |->
        CASE g = "Header/Footer"  -> {"header", "footer"}
          [] g = "Text Block"     -> {"text_block"}
          [] g = "Image Gallery"  -> {"image_gallery"}
          [] g = "Navigation Bar" -> {"nav_bar"}
          [] g = "Link Block"     -> {"link_block"}
          [] g = "Button Block"   -> {"button_block"}
          [] g = "Form"           -> {"forms"}
          [] g = "Modal"          -> {"modals"}]

\* the records of the categories of c that are in cats, in c's category order
RECURSIVE Concatenation(_, _, _)
Concatenation(c, cats, n) ==
    IF n > Len(c) THEN <<>>
    ELSE (IF c[n][1] \in cats THEN c[n][2] ELSE <<>>) \o Concatenation(c, cats, n + 1)

\* C5: for every file and display group, the group is in the file's
\* aggregated view exactly when a category key of the file maps to it, its
\* details are the concatenation of those categories' records in the file's
\* category order, and its count is the number of those records.
C5_GroupCountsAndDetails ==
    pc = "generated" =>
        /\ Keys(components_json) = Keys(page_summary)
        /\ \A f \in 1..Len(page_summary) :
              LET c    == page_summary[f][2]
                  view == Get(components_json, page_summary[f][1])
              IN  /\ \A n \in 1..Len(view) : view[n][1] \in DOMAIN GroupCategories
                  /\ \A g \in DOMAIN GroupCategories :
                        LET cats == GroupCategories[g]
                        IN  IF \E n \in 1..Len(c) : c[n][1] \in cats
                            THEN /\ Has(view, g)
                                 /\ Get(view, g).details = Concatenation(c, cats, 1)
                                 /\ Get(view, g).count = Len(Concatenation(c, cats, 1))
                            ELSE ~Has(view, g)

\* a file with one header record x and one footer record y got the group
\* Header/Footer with count 2 and details [x, y], and has no Form group
C5_Witness ==
    /\ pc = "generated"
    /\ \E f \in 1..Len(page_summary) :
          LET c    == page_summary[f][2]
              view == Get(components_json, page_summary[f][1])
          IN  /\ page_summary[f][1] = "page.mhtml"
              /\ Has(c, "header") /\ Len(Get(c, "header")) = 1
              /\ Has(c, "footer") /\ Len(Get(c, "footer")) = 1
              /\ Get(view, "Header/Footer") =
                    [count |-> 2, details |-> Get(c, "header") \o Get(c, "footer")]
              /\ ~Has(view, "Form")

-----------------------------------------------------------------------------
(* Claims about main (checked under SpecMain) *)

AfterLoop == pc \in {"button", "done", "failed"}

\* the file's HTML extraction succeeded with non-empty text
Extracted(file) ==
    LET text == extract_html_from_mhtml(file.parts)
    IN  ~IsNone(text) /\ text[2] # ""

\* the places among the first five uploads
FirstFive == {i \in 1..Len(uploaded) : i <= 5}

\* the names of the uploads at places in S that satisfy (keep = TRUE) or do
\* not satisfy (keep = FALSE) Extracted, in upload order
RECURSIVE NamesFrom(_, _, _)
NamesFrom(S, i, keep) ==
    IF i > Len(uploaded) THEN <<>>
    ELSE (IF i \in S /\ Extracted(uploaded[i]) = keep THEN <<uploaded[i].name>> ELSE <<>>)
         \o NamesFrom(S, i + 1, keep)

\* what main stores for an upload of each kind when it is the only upload
AloneEntry ==
    [v \in Variants, r \in SoupRules, parts \in {k \in UploadKinds : Extracted([parts |-> k])} |->
        CleanedComponents(v, r, extract_html_from_mhtml(parts)[2])]

\* C7: after the loop over a non-empty upload list, the page summary has
\* exactly one entry for each of the first five uploads whose extraction
\* succeeded with non-empty text and none for any other file; each of the
\* first five was read exactly once and no file more than once; every failed
\* file among them produced one warning and the loop went on; and the entry of
\* a file is what that file alone yields, whatever the other files are.
C7_OneEntryPerExtractedFile ==
    /\ \A i \in 1..Len(reads) : reads[i] <= 1
    /\ (AfterLoop /\ uploaded # <<>>) =>
          /\ Keys(page_summary) = NamesFrom(FirstFive, 1, TRUE)
          /\ warnings = NamesFrom(FirstFive, 1, FALSE)
          /\ \A i \in 1..Len(uploaded) : reads[i] = IF i \in FirstFive THEN 1 ELSE 0
          /\ \A i \in FirstFive :
                Extracted(uploaded[i]) =>
                    Get(page_summary, uploaded[i].name) =
                        AloneEntry[variant, bs4, uploaded[i].parts]

\* a run over six uploads ended: the first succeeded, the second has no HTML
\* part, the third decodes to nothing, the fourth succeeded, and the sixth,
\* which would succeed, has no entry
C7_Witness ==
    /\ pc = "done"
    /\ Len(uploaded) = 6
    /\ Extracted(uploaded[1]) /\ Extracted(uploaded[4]) /\ Extracted(uploaded[6])
    /\ IsNone(extract_html_from_mhtml(uploaded[2].parts))
    /\ extract_html_from_mhtml(uploaded[3].parts) = Str("")
    /\ Has(page_summary, uploaded[1].name)
    /\ Has(page_summary, uploaded[4].name)
    /\ ~Has(page_summary, uploaded[6].name)
    /\ Len(warnings) >= 2

\* C8: in src/app.py a request to the text-generation service is made only
\* once the analysis button was pressed and never with an empty page summary:
\* with an empty page summary the analysis is the fixed message and nothing
\* is sent; and a run without uploads builds, aggregates and shows the sample
\* page summary, sending nothing unless the button was pressed.
C8_RequestOnlyOnAction ==
    variant = "app" =>
        /\ requests # <<>> => (clicked /\ page_summary # <<>>)
        /\ (clicked /\ page_summary = <<>>) =>
              (requests = <<>> /\ analysis = Str("No pages to analyse."))
        /\ (AfterLoop /\ uploaded = <<>>) =>
              /\ page_summary = SampleSummary
              /\ Keys(components_json) = <<"sample.mhtml">>
              /\ shown[1] = "table"
              /\ shown[2] = << <<"sample.mhtml", <<2, 1, 1, 1, 1, 1, 1, 1>> >> >>
              /\ (~clicked => requests = <<>>)

\* every upload of a run of src/app.py failed extraction, the button was
\* pressed, and the analysis is the fixed message with nothing sent
C8_Witness ==
    /\ variant = "app"
    /\ pc = "done"
    /\ uploaded # <<>>
    /\ page_summary = <<>>
    /\ clicked
    /\ analysis = Str("No pages to analyse.")
    /\ requests = <<>>

====
